---- MODULE Spec2Model ----
(***************************************************************************)
(* Model of client/client.py: the serial client of the Game Boy cartridge  *)
(* reader/writer.  Every ser.read / ser.write of the client is one step.   *)
(***************************************************************************)
EXTENDS Integers, Sequences, FiniteSets, TLC

(* ------------------------------------------------------------------ *)
(* Program constants                                                   *)
(* ------------------------------------------------------------------ *)
HDR_LEN == 80
BLOCK_SIZE == 512
BANK_SIZE == 8192
CHUNK_SIZE == 32
CHUNKS_PER_BANK == 256
TITLE_END == 15

(* ------------------------------------------------------------------ *)
(* Bounds of the model                                                 *)
(* ------------------------------------------------------------------ *)
\* flash() is called directly with 0..MaxBanks banks
MaxBanks == 2
\* dump() is called directly with 0..MaxBlocks blocks
MaxBlocks == 4
\* the mock transport injects at most MaxFaults short reads/writes per run
MaxFaults == 1
\* main is run on cartridges with ROM size codes 0..MaxRomCode
MaxRomCode == 0
\* the round trip is run for the RAM size codes 0..MaxLoopCode
MaxLoopCode == 5
\* the size computations are run for the ROM size codes 0..MaxSizeCode
MaxSizeCode == 8

(* ------------------------------------------------------------------ *)
(* Python sequence semantics                                           *)
(* ------------------------------------------------------------------ *)
Min(a, b) == IF a < b THEN a ELSE b

\* s[a:b] for 0 <= a <= b: a slice is clipped to the sequence, never an error
Slice(s, a, b) == SubSeq(s, Min(a, Len(s)) + 1, Min(b, Len(s)))

(* ------------------------------------------------------------------ *)
(* Byte contents of device memories and files                          *)
(* ------------------------------------------------------------------ *)
\* byte k of pattern p (k counted from 1); chunks, blocks and banks all differ
PatByte(p, k) ==
    (k * (2 * p + 1) + (k \div 32) * 5 + (k \div 512) * 11 + (k \div 8192) * 7 + p) % 256

\* n bytes of pattern p, from offset off
PatBytes(p, off, n) == [k \in 1..n |-> PatByte(p, off + k)]

(* ------------------------------------------------------------------ *)
(* class CartridgeHeader                                               *)
(* ------------------------------------------------------------------ *)
\* b"\0" in data / bytearray(data).index(0): 0-based index of the first zero byte
HasZero(d) == \E k \in 1..Len(d) : d[k] = 0

IndexOfZero(d) == (CHOOSE k \in 1..Len(d) : d[k] = 0 /\ \A m \in 1..(k - 1) : d[m] # 0) - 1

\* were title_end the length of the field when it holds no zero byte
TitleEnd_Whole(d) == IF HasZero(d) THEN IndexOfZero(d) ELSE Len(d)

\* title_end of __extract_title
TitleEnd(d) == IF HasZero(d) THEN IndexOfZero(d) ELSE TITLE_END

\* were the decode one that accepts every byte, as decode("latin-1") does
AsciiOK_AnyByte(d) == \A k \in 1..Len(d) : d[k] < 256

\* bytes.decode("ascii"): one character per byte, defined on bytes below 0x80 only
AsciiOK(d) == \A k \in 1..Len(d) : d[k] < 128

\* a character of a str, by its code point
Chr(b) == [chr |-> b]

DecodeAscii(d) == [k \in 1..Len(d) |-> Chr(d[k])]

\* __extract_title(data): the decoded title, when the decode succeeds
extract_title(d) == DecodeAscii(Slice(d, 0, TitleEnd(d)))

\* the exception CartridgeHeader(hdrdata) raises, "none" when it returns: the decode
\* of line 30, then hdrdata[0x47], hdrdata[0x48], hdrdata[0x49], hdrdata[0x4D]
HeaderError(h) ==
    IF ~AsciiOK(Slice(Slice(h, 52, 68), 0, TitleEnd(Slice(h, 52, 68))))
    THEN "UnicodeDecodeError"
    ELSE IF \E k \in {71, 72, 73, 77} : k >= Len(h)
         THEN "IndexError"
         ELSE "none"

\* CartridgeHeader.__init__(hdrdata), for hdrdata it accepts
CartridgeHeader(h) ==
    [data |-> h,
     nintendo_logo |-> Slice(h, 4, 52),
     title |-> extract_title(Slice(h, 52, 68)),
     cart_type |-> h[71 + 1],
     rom_size |-> h[72 + 1],
     ram_size |-> h[73 + 1],
     hdr_cksm |-> h[77 + 1]]

\* a checksum loop without the wraparound: x = x - b - 1
RECURSIVE Checksum_NoWrap(_, _)
Checksum_NoWrap(d, n) == IF n = 0 THEN 0 ELSE Checksum_NoWrap(d, n - 1) - d[n] - 1

\* the loop of valid(): x after the bytes d[1..n], starting from 0
RECURSIVE Checksum(_, _)
Checksum(d, n) == IF n = 0 THEN 0 ELSE (Checksum(d, n - 1) - d[n] - 1) % 256

\* CartridgeHeader.valid()
valid(hd) == Checksum(Slice(hd.data, 52, 77), Len(Slice(hd.data, 52, 77))) = hd.hdr_cksm

(* ------------------------------------------------------------------ *)
(* Size computations of main                                           *)
(* ------------------------------------------------------------------ *)
\* 2 << n
Shl2(n) == 2 * (2 ^ n)

\* were the count linear in the code: 32 * (2 * (code + 1))
RomBlocks_Linear(code) == 32 * (2 * (code + 1))

\* line 95: num_blocks = 32 * (2 << header.rom_size)
RomBlocks(code) == 32 * Shl2(code)

\* were the default of the lookup one unit: {...}.get(code, 1)
RamTable_DefaultOne(code) ==
    CASE code = 2 -> 1
      [] code = 3 -> 4
      [] code = 4 -> 16
      [] code = 5 -> 8
      [] OTHER -> 1

\* {2: 1, 3: 4, 4: 16, 5: 8}.get(code, 0)
RamTable(code) ==
    CASE code = 2 -> 1
      [] code = 3 -> 4
      [] code = 4 -> 16
      [] code = 5 -> 8
      [] OTHER -> 0

\* were line 110 missing
RamBlocks_NoMultiplier(code) == RamTable(code)

\* lines 109-110: num_blocks of the RAM dump
RamBlocks(code) == RamTable(code) * 16

\* were the flash to count blocks as the dump does
RamBanks_Times16(code) == RamTable(code) * 16

\* line 124: num_blocks (banks) of the RAM flash
RamBanks(code) == RamTable(code)

(* ------------------------------------------------------------------ *)
(* Payload files                                                       *)
(* ------------------------------------------------------------------ *)
\* the byte patterns of payloads and device memories
Patterns == {0, 1}

\* sizes of the file handed to a flash of n banks: exact, too long, too short,
\* shorter than one chunk, empty
DataLens(n) ==
    {k \in {n * BANK_SIZE, n * BANK_SIZE + 5, n * BANK_SIZE - 7, 25, 0} : k >= 0}

\* RAM size codes of the cartridges of a session: no RAM, one bank, unknown code
RamCodes == {0, 2, 6}

\* the lengths of all files flashed
FileLens ==
    UNION {DataLens(n) : n \in 0..MaxBanks}
    \cup UNION {DataLens(RamBanks(c)) : c \in RamCodes}
    \cup {RamBanks(c) * BANK_SIZE : c \in 0..MaxLoopCode}

\* the contents of the files: n bytes of pattern p
FileBytes == [p \in Patterns, n \in FileLens |-> PatBytes(p, 0, n)]

NoFile == [pat |-> 0, len |-> 0]

(* ------------------------------------------------------------------ *)
(* State                                                               *)
(* ------------------------------------------------------------------ *)
VARIABLES
    pc,          \* position of the client in main / dump / flash
    op,          \* the caller of dump / flash: "rom", "ram", "flash" of main, else a direct call
    args,        \* parsed command line: dumprom, dumpram, flashram
    header,      \* the CartridgeHeader object (fields), once constructed
    num_blocks,  \* local num_blocks of main / parameter of dump and flash
    i,           \* loop counter of dump (blocks) and of flash (banks)
    j,           \* chunk counter of flash
    dump_,       \* accumulating buffer of dump
    file,        \* the file to flash: its byte pattern and its length
    out_files,   \* files written by dump, in order: <<name, contents>>
    wire,        \* every byte the transport accepted from the client, in order
    trig,        \* command bytes written after 0xCA, in order
    chunkWrites, \* number of ser.write(chunk) calls issued by flash
    syncReads,   \* number of ser.read() calls completed by flash
    blockReads,  \* number of ser.read(512) calls completed by dump
    lastOp,      \* kind of the last transport operation
    devHdr,      \* the device's answer to the handshake
    devSrc,      \* what the device streams: "none", "rom", "ram"
    devPos,      \* number of bytes the device has streamed of devSrc
    devPat,      \* pattern of the device's initial memory contents
    devFlashAt,  \* offset in wire where the received flash data starts, -1 if none
    acks,        \* acknowledge bytes the device has sent and the client not yet read
    faults,      \* short reads / short writes injected by the transport so far
    stdout,      \* status lines printed by main, in order
    err          \* exception that ended the run, "none" otherwise

\* data = Path(file_name).read_bytes(): the payload of flash
data == FileBytes[file.pat, file.len]

vars == <<pc, op, args, header, num_blocks, i, j, dump_, file, out_files, wire,
          trig, chunkWrites, syncReads, blockReads, lastOp, devHdr, devSrc,
          devPos, devPat, devFlashAt, acks, faults, stdout, err>>

(* ------------------------------------------------------------------ *)
(* Transport and device                                                *)
(* ------------------------------------------------------------------ *)
\* lengths a faulty transport accepts of an n-byte write
ShortWriteLens(n) == {k \in {0, n - 1} : k >= 0 /\ k < n}

\* lengths a faulty transport returns for an n-byte read
ShortReadLens(n) == {k \in {0, 1, n - 1} : k >= 0 /\ k < n}

\* the device's RAM: what it received since the flash trigger, else its initial contents
DevRamLen == IF devFlashAt >= 0 THEN Len(wire) - devFlashAt ELSE -1

DevRamBytes(off, n) ==
    IF devFlashAt >= 0
    THEN SubSeq(wire, devFlashAt + off + 1, devFlashAt + off + n)
    ELSE PatBytes(devPat, off, n)

\* bytes the device can still stream of its current source (-1: no limit modelled)
DevAvail == IF devSrc = "ram" /\ devFlashAt >= 0 THEN DevRamLen - devPos ELSE -1

\* the next n bytes of the device's stream
DevStream(n) ==
    IF devSrc = "ram" THEN DevRamBytes(devPos, n) ELSE PatBytes(devPat + 1, devPos, n)

\* a transport handed to a direct call of dump or flash may return a short read or
\* accept a short write; in a session of main the blocks and chunks are transferred
\* in full (the port of line 74 has no timeout) and only the handshake answer may
\* be short
MayFault == op \in {"call_dump", "call_flash"} /\ faults < MaxFaults

\* the statement after the return of dump() or flash(), by the caller o
ReturnPc(o) ==
    CASE o = "rom" -> "m_rom_done"
      [] o = "ram" -> "m_ram_done"
      [] o = "flash" -> "m_flash_done"
      [] o = "loop_flash" -> "loop_dump"
      [] OTHER -> "done"

(* ------------------------------------------------------------------ *)
(* flash(ser, data, num_banks)                                         *)
(* ------------------------------------------------------------------ *)
\* bank = data[i * 0x2000 : (i + 1) * 0x2000]
Bank(d, b) == Slice(d, b * BANK_SIZE, (b + 1) * BANK_SIZE)

\* a flash that cuts chunk j at bank[j : j + 32]
Chunk_NoStride(d, b, c) == Slice(Bank(d, b), c, c + CHUNK_SIZE)

\* chunk = bank[j * 32 : (j + 1) * 32]
Chunk(d, b, c) == Slice(Bank(d, b), c * CHUNK_SIZE, (c + 1) * CHUNK_SIZE)

\* for i in range(num_banks): the first iteration, or the return when there is none
FlashEntryPc(n, o) == IF 0 < n THEN "f_chunk" ELSE ReturnPc(o)

\* a flash without the assert
AfterWritePc_NoAssert(written) == "f_sync"

\* a flash without the synchronizing read of line 58
AfterWritePc_NoSync(written) == IF written = CHUNK_SIZE THEN "f_chunk" ELSE "error"

\* assert written == 32, then on to the synchronizing read
AfterWritePc(written) == IF written = CHUNK_SIZE THEN "f_sync" ELSE "error"

\* a flash with the read of line 60 inside the loop over the chunks
AfterSyncPc_WaitPerChunk(c) == "f_wait"

\* for j in range(256): after the synchronizing read of chunk c
AfterSyncPc(c) == IF c + 1 < CHUNKS_PER_BANK THEN "f_chunk" ELSE "f_wait"

\* for i in range(num_banks): after the read that waits for bank b
AfterBankPc(b, n, o) == IF b + 1 < n THEN "f_chunk" ELSE ReturnPc(o)

\* acknowledge bytes the device sends when its flash data grows from len0 to len1:
\* one per complete chunk, one more per complete bank
DevAcks(len0, len1) ==
    (len1 \div CHUNK_SIZE - len0 \div CHUNK_SIZE)
    + (len1 \div BANK_SIZE - len0 \div BANK_SIZE)

\* lines 54-56: chunk = ...; written = ser.write(chunk); assert written == 32
FlashWriteChunk ==
    /\ pc = "f_chunk"
    /\ LET chunk == Chunk(data, i, j) IN
       \E written \in {Len(chunk)} \cup
                      (IF MayFault THEN ShortWriteLens(Len(chunk)) ELSE {}) :
          /\ wire' = wire \o SubSeq(chunk, 1, written)
          /\ faults' = IF written < Len(chunk) THEN faults + 1 ELSE faults
          /\ chunkWrites' = chunkWrites + 1
          /\ lastOp' = "write_chunk"
          /\ acks' = acks + DevAcks(Len(wire) - devFlashAt, Len(wire) + written - devFlashAt)
          /\ pc' = AfterWritePc(written)
          /\ err' = IF AfterWritePc(written) = "error" THEN "AssertionError" ELSE err
    /\ UNCHANGED <<op, args, header, num_blocks, i, j, dump_, file, out_files, trig,
                   syncReads, blockReads, devHdr, devSrc, devPos, devPat, devFlashAt,
                   stdout>>

\* line 58: ser.read(), blocks for one byte of the device; the answer is discarded
FlashSyncRead ==
    /\ pc = "f_sync"
    /\ acks > 0
    /\ acks' = acks - 1
    /\ syncReads' = syncReads + 1
    /\ lastOp' = "read_sync"
    /\ j' = j + 1
    /\ pc' = AfterSyncPc(j)
    /\ UNCHANGED <<op, args, header, num_blocks, i, dump_, file, out_files, err, wire,
                   trig, chunkWrites, blockReads, devHdr, devSrc, devPos, devPat,
                   devFlashAt, faults, stdout>>

\* line 60: ser.read() after the 256 chunks of a bank, then the next bank
FlashBankRead ==
    /\ pc = "f_wait"
    /\ acks > 0
    /\ acks' = acks - 1
    /\ syncReads' = syncReads + 1
    /\ lastOp' = "read_bank"
    /\ i' = i + 1
    /\ j' = 0
    /\ pc' = AfterBankPc(i, num_blocks, op)
    /\ UNCHANGED <<op, args, header, num_blocks, dump_, file, out_files, err, wire,
                   trig, chunkWrites, blockReads, devHdr, devSrc, devPos, devPat,
                   devFlashAt, faults, stdout>>

\* a direct call flash(ser, data, num_banks)
CallFlash ==
    /\ pc = "call_flash"
    /\ i' = 0
    /\ j' = 0
    /\ pc' = FlashEntryPc(num_blocks, op)
    /\ UNCHANGED <<op, args, header, num_blocks, dump_, file, out_files, err, wire,
                   trig, chunkWrites, syncReads, blockReads, lastOp, devHdr, devSrc,
                   devPos, devPat, devFlashAt, acks, faults, stdout>>

(* ------------------------------------------------------------------ *)
(* dump(ser, title, num_blocks)                                        *)
(* ------------------------------------------------------------------ *)
\* for i in range(num_blocks): the first iteration, or the statement after the loop
DumpEntryPc(n) == IF 0 < n THEN "d_read" ELSE "d_write"

\* were the file written after the first block
AfterBlockPc_WriteEarly(b, n) == "d_write"

\* for i in range(num_blocks): after block b has been appended
AfterBlockPc(b, n) == IF b + 1 < n THEN "d_read" ELSE "d_write"

\* a dump that puts the new block in front
AppendBlock_Prepend(buf, block) == block \o buf

\* dump_ += block
AppendBlock(buf, block) == buf \o block

\* the file name main passes to dump (lines 97, 112), "out" for a direct call
FileName(o, a, hd) ==
    CASE o = "rom" -> IF a.dumprom # "c"
                      THEN [given |-> a.dumprom, title |-> <<>>, ext |-> ""]
                      ELSE [given |-> "", title |-> hd.title, ext |-> ".rom"]
      [] o = "ram" -> IF a.dumpram # "c"
                      THEN [given |-> a.dumpram, title |-> <<>>, ext |-> ""]
                      ELSE [given |-> "", title |-> hd.title, ext |-> ".ram"]
      [] OTHER -> [given |-> "out", title |-> <<>>, ext |-> ""]

\* a dump that answers every block with an acknowledge byte
DumpRead_WithAck ==
    /\ pc = "d_read"
    /\ DevAvail = -1 \/ BLOCK_SIZE <= DevAvail
    /\ dump_' = dump_ \o DevStream(BLOCK_SIZE)
    /\ devPos' = devPos + BLOCK_SIZE
    /\ wire' = wire \o <<6>>
    /\ blockReads' = blockReads + 1
    /\ lastOp' = "write_ack"
    /\ i' = i + 1
    /\ pc' = IF i + 1 < num_blocks THEN "d_read" ELSE "d_write"
    /\ UNCHANGED <<op, args, header, num_blocks, j, file, out_files, trig, chunkWrites,
                   syncReads, devHdr, devSrc, devPat, devFlashAt, acks, faults, stdout,
                   err>>

\* lines 42-43: block = ser.read(512); dump_ += block
DumpRead ==
    /\ pc = "d_read"
    /\ \E n \in {BLOCK_SIZE} \cup (IF MayFault THEN ShortReadLens(BLOCK_SIZE) ELSE {}) :
          \* a read blocks until the device has sent the bytes it returns
          /\ DevAvail = -1 \/ n <= DevAvail
          /\ dump_' = AppendBlock(dump_, DevStream(n))
          /\ devPos' = devPos + n
          /\ faults' = IF n < BLOCK_SIZE THEN faults + 1 ELSE faults
    /\ blockReads' = blockReads + 1
    /\ lastOp' = "read_block"
    /\ i' = i + 1
    /\ pc' = AfterBlockPc(i, num_blocks)
    /\ UNCHANGED <<op, args, header, num_blocks, j, file, out_files, wire, trig,
                   chunkWrites, syncReads, devHdr, devSrc, devPat, devFlashAt, acks,
                   stdout, err>>

\* line 42 when the port is lost: ser.read(512) raises SerialException, which dump
\* does not catch, so the loop and line 45 are not run
DumpReadRaises ==
    /\ pc = "d_read"
    /\ MayFault
    /\ faults' = faults + 1
    /\ lastOp' = "read_block"
    /\ pc' = "error"
    /\ err' = "SerialException"
    /\ UNCHANGED <<op, args, header, num_blocks, i, j, dump_, file, out_files, wire,
                   trig, chunkWrites, syncReads, blockReads, devHdr, devSrc, devPos,
                   devPat, devFlashAt, acks, stdout>>

\* line 45: out_file.write_bytes(dump_), and the return (dump_ goes out of scope)
DumpWriteFile ==
    /\ pc = "d_write"
    /\ out_files' = Append(out_files, [name |-> FileName(op, args, header),
                                       bytes |-> dump_])
    /\ dump_' = <<>>
    /\ pc' = ReturnPc(op)
    /\ UNCHANGED <<op, args, header, num_blocks, i, j, file, wire, trig, chunkWrites,
                   syncReads, blockReads, lastOp, devHdr, devSrc, devPos, devPat,
                   devFlashAt, acks, faults, stdout, err>>

\* a direct call dump(ser, title, num_blocks): lines 38-39
CallDump ==
    /\ pc = "call_dump"
    /\ i' = 0
    /\ dump_' = <<>>
    /\ pc' = DumpEntryPc(num_blocks)
    /\ UNCHANGED <<op, args, header, num_blocks, j, file, out_files, wire, trig,
                   chunkWrites, syncReads, blockReads, lastOp, devHdr, devSrc, devPos,
                   devPat, devFlashAt, acks, faults, stdout, err>>

(* ------------------------------------------------------------------ *)
(* main()                                                              *)
(* ------------------------------------------------------------------ *)
\* ser.write(b"\xCA" + c): the two bytes on the wire
Command(c) == <<202, c>>

\* line 79: ser.write(b"\xCA\x00")
MainHandshake ==
    /\ pc = "m_hs"
    /\ wire' = wire \o Command(0)
    /\ trig' = Append(trig, 0)
    /\ lastOp' = "write_cmd"
    /\ pc' = "m_hdr"
    /\ UNCHANGED <<op, args, header, num_blocks, i, j, dump_, file, out_files,
                   chunkWrites, syncReads, blockReads, devHdr, devSrc, devPos, devPat,
                   devFlashAt, acks, faults, stdout, err>>

\* line 80: header = CartridgeHeader(ser.read(80)); the read returns what the
\* device answered, at most 80 bytes
MainReadHeader ==
    /\ pc = "m_hdr"
    /\ LET hdrdata == Slice(devHdr, 0, HDR_LEN) IN
       IF HeaderError(hdrdata) = "none"
       THEN /\ header' = CartridgeHeader(hdrdata)
            /\ pc' = "m_valid"
            /\ err' = err
       ELSE /\ header' = header
            /\ pc' = "error"
            /\ err' = HeaderError(hdrdata)
    /\ lastOp' = "read_hdr"
    /\ UNCHANGED <<op, args, num_blocks, i, j, dump_, file, out_files, wire, trig,
                   chunkWrites, syncReads, blockReads, devHdr, devSrc, devPos, devPat,
                   devFlashAt, acks, faults, stdout>>

\* lines 82-87 were an invalid header fatal: the run ends at the else branch
MainValid_Fatal ==
    /\ pc = "m_valid"
    /\ stdout' = IF valid(header) THEN Append(stdout, "Received valid header.") ELSE stdout
    /\ pc' = IF valid(header) THEN "m_select" ELSE "error"
    /\ err' = IF valid(header) THEN err ELSE "HeaderChecksumMismatch"
    /\ UNCHANGED <<op, args, header, num_blocks, i, j, dump_, file, out_files, wire,
                   trig, chunkWrites, syncReads, blockReads, lastOp, devHdr, devSrc,
                   devPos, devPat, devFlashAt, acks, faults>>

\* lines 82-87: if header.valid(): print(...) else: pass; header.info()
MainValid ==
    /\ pc = "m_valid"
    /\ stdout' = IF valid(header) THEN Append(stdout, "Received valid header.") ELSE stdout
    /\ pc' = "m_select"
    /\ UNCHANGED <<op, args, header, num_blocks, i, j, dump_, file, out_files, wire,
                   trig, chunkWrites, syncReads, blockReads, lastOp, devHdr, devSrc,
                   devPos, devPat, devFlashAt, acks, faults, err>>

\* were lines 89-90 missing
SelectPc_NoExit(a) == "m_rom"

\* lines 89-90: if not args.dumprom and not args.dumpram and not args.flashram: exit(0)
SelectPc(a) == IF a.dumprom = "" /\ a.dumpram = "" /\ a.flashram = "" THEN "exit" ELSE "m_rom"

MainSelect ==
    /\ pc = "m_select"
    /\ pc' = SelectPc(args)
    /\ UNCHANGED <<op, args, header, num_blocks, i, j, dump_, file, out_files, wire,
                   trig, chunkWrites, syncReads, blockReads, lastOp, devHdr, devSrc,
                   devPos, devPat, devFlashAt, acks, faults, stdout, err>>

\* lines 92-101: if args.dumprom: ...; ser.write(b"\xCA\x01"); dump(ser, file_name, num_blocks)
MainDumpRom ==
    /\ pc = "m_rom"
    /\ IF args.dumprom # ""
       THEN /\ num_blocks' = RomBlocks(header.rom_size)
            /\ wire' = wire \o Command(1)
            /\ trig' = Append(trig, 1)
            /\ lastOp' = "write_cmd"
            /\ devSrc' = "rom"
            /\ devPos' = 0
            /\ op' = "rom"
            /\ i' = 0
            /\ dump_' = <<>>
            /\ pc' = DumpEntryPc(RomBlocks(header.rom_size))
       ELSE /\ pc' = "m_ram"
            /\ UNCHANGED <<num_blocks, wire, trig, lastOp, devSrc, devPos, op, i, dump_>>
    /\ UNCHANGED <<args, header, j, file, out_files, chunkWrites, syncReads, blockReads,
                   devHdr, devPat, devFlashAt, acks, faults, stdout, err>>

\* lines 106-116: if args.dumpram: ...; ser.write(b"\xCA\x02"); dump(ser, file_name, num_blocks)
MainDumpRam ==
    /\ pc = "m_ram"
    /\ IF args.dumpram # ""
       THEN /\ num_blocks' = RamBlocks(header.ram_size)
            /\ wire' = wire \o Command(2)
            /\ trig' = Append(trig, 2)
            /\ lastOp' = "write_cmd"
            /\ devSrc' = "ram"
            /\ devPos' = 0
            /\ op' = "ram"
            /\ i' = 0
            /\ dump_' = <<>>
            /\ pc' = DumpEntryPc(RamBlocks(header.ram_size))
       ELSE /\ pc' = "m_flash"
            /\ UNCHANGED <<num_blocks, wire, trig, lastOp, devSrc, devPos, op, i, dump_>>
    /\ UNCHANGED <<args, header, j, file, out_files, chunkWrites, syncReads, blockReads,
                   devHdr, devPat, devFlashAt, acks, faults, stdout, err>>

\* lines 121-132: if args.flashram: ...; data = Path(file_name).read_bytes();
\* ser.write(b"\xCA\x04"); flash(ser, data, num_blocks)
MainFlashRam ==
    /\ pc = "m_flash"
    /\ IF args.flashram # ""
       THEN /\ num_blocks' = RamBanks(header.ram_size)
            /\ \E n \in DataLens(RamBanks(header.ram_size)) : file' = [pat |-> devPat, len |-> n]
            /\ wire' = wire \o Command(4)
            /\ trig' = Append(trig, 4)
            /\ lastOp' = "write_cmd"
            /\ devSrc' = "none"
            /\ devFlashAt' = Len(wire) + 2
            /\ op' = "flash"
            /\ i' = 0
            /\ j' = 0
            /\ pc' = FlashEntryPc(RamBanks(header.ram_size), "flash")
       ELSE /\ pc' = "done"
            /\ UNCHANGED <<num_blocks, file, wire, trig, lastOp, devSrc, devFlashAt, op,
                           i, j>>
    /\ UNCHANGED <<args, header, dump_, out_files, chunkWrites, syncReads, blockReads,
                   devHdr, devPos, devPat, acks, faults, stdout, err>>

\* were the ROM dump's block entered again after its "Done!"
AfterDonePc_Repeat(at) ==
    CASE at = "m_rom_done" -> "m_rom"
      [] at = "m_ram_done" -> "m_ram"
      [] OTHER -> "done"

\* the statement after a finished transfer (lines 106, 121, end of main)
AfterDonePc(at) ==
    CASE at = "m_rom_done" -> "m_ram"
      [] at = "m_ram_done" -> "m_flash"
      [] OTHER -> "done"

\* lines 103-104, 118-119, 134-135: print(); print("[*] Done!")
MainDone ==
    /\ pc \in {"m_rom_done", "m_ram_done", "m_flash_done"}
    /\ stdout' = Append(stdout, "Done!")
    /\ pc' = AfterDonePc(pc)
    /\ UNCHANGED <<op, args, header, num_blocks, i, j, dump_, file, out_files, wire,
                   trig, chunkWrites, syncReads, blockReads, lastOp, devHdr, devSrc,
                   devPos, devPat, devFlashAt, acks, faults, err>>

(* ------------------------------------------------------------------ *)
(* Initial states                                                      *)
(* ------------------------------------------------------------------ *)
NoArgs == [dumprom |-> "", dumpram |-> "", flashram |-> ""]

NoHeader == [data |-> <<>>, nintendo_logo |-> <<>>, title |-> <<>>, cart_type |-> 0,
             rom_size |-> 0, ram_size |-> 0, hdr_cksm |-> 0]

InitCommon ==
    /\ i = 0
    /\ j = 0
    /\ dump_ = <<>>
    /\ out_files = <<>>
    /\ wire = <<>>
    /\ trig = <<>>
    /\ chunkWrites = 0
    /\ syncReads = 0
    /\ blockReads = 0
    /\ lastOp = "none"
    /\ devPos = 0
    /\ acks = 0
    /\ faults = 0
    /\ stdout = <<>>
    /\ err = "none"

\* the 80 bytes a device answers for a cartridge: the 16 bytes of the title field,
\* cartridge type, size codes and checksum byte, the logo and the rest filled in
HdrBytes(title16, cart, rom, ram, ck) ==
    [k \in 1..HDR_LEN |->
        CASE k - 1 \in 52..67 -> title16[k - 52]
          [] k - 1 = 71 -> cart
          [] k - 1 = 72 -> rom
          [] k - 1 = 73 -> ram
          [] k - 1 = 77 -> ck
          [] OTHER -> (k * 3) % 256]

\* the checksum byte that makes h valid, plus d
CkByte(h, d) == (Checksum(SubSeq(h, 53, 77), 25) + d) % 256

WithCk(h, d) == [h EXCEPT ![78] = CkByte(h, d)]

\* title fields: "POKEMON" zero-terminated, 16 letters, a byte above 0x7F
Pokemon == <<80, 79, 75, 69, 77, 79, 78, 0, 0, 0, 0, 0, 0, 0, 0, 0>>

BadTitle == <<90, 200, 0, 0, 0, 0, 0, 0, 0, 0, 0, 0, 0, 0, 0, 0>>

Letters16 == [k \in 1..16 |-> 64 + k]

TitleFields == {Pokemon, Letters16, BadTitle}

\* answers of the device to the handshake: the headers of cartridges of every size
\* code with a right and a wrong checksum, of every title, and a header cut to
\* every length
MainHeaders ==
    {WithCk(HdrBytes(Pokemon, 3, rom, ram, 0), d) :
        rom \in 0..MaxRomCode, ram \in RamCodes, d \in {0, 1}}
    \cup {WithCk(HdrBytes(t, 3, 0, 0, 0), 0) : t \in TitleFields}
    \cup {SubSeq(WithCk(HdrBytes(t, 3, 0, 2, 0), 0), 1, n) :
            t \in {Pokemon, BadTitle}, n \in 0..HDR_LEN}

\* a session of main
Init ==
    /\ InitCommon
    /\ pc = "m_hs"
    /\ op = "main"
    /\ header = NoHeader
    /\ args \in [dumprom : {"", "c"}, dumpram : {"", "c", "out.ram"}, flashram : {"", "in.ram"}]
    /\ devHdr \in MainHeaders
    /\ devPat \in Patterns
    /\ num_blocks = 0
    /\ file = NoFile
    /\ devSrc = "none"
    /\ devFlashAt = -1

Next ==
    \/ MainHandshake \/ MainReadHeader \/ MainValid \/ MainSelect
    \/ MainDumpRom \/ MainDumpRam \/ MainFlashRam \/ MainDone
    \/ DumpRead \/ DumpWriteFile
    \/ FlashWriteChunk \/ FlashSyncRead \/ FlashBankRead

Spec == Init /\ [][Next]_vars

\* flash called directly on a device that is ready to receive
InitFlash ==
    /\ InitCommon
    /\ args = NoArgs
    /\ header = NoHeader
    /\ devHdr = <<>>
    /\ pc = "call_flash"
    /\ op = "call_flash"
    /\ num_blocks \in 0..MaxBanks
    /\ file \in [pat : Patterns, len : DataLens(num_blocks)]
    /\ devSrc = "none"
    /\ devPat = 0
    /\ devFlashAt = 0

\* dump called directly on a device that streams its memory
InitDump ==
    /\ InitCommon
    /\ args = NoArgs
    /\ header = NoHeader
    /\ devHdr = <<>>
    /\ pc = "call_dump"
    /\ op = "call_dump"
    /\ num_blocks \in 0..MaxBlocks
    /\ file = NoFile
    /\ devSrc \in {"rom", "ram"}
    /\ devPat \in Patterns
    /\ devFlashAt = -1

NextDump == CallDump \/ DumpRead \/ DumpReadRaises \/ DumpWriteFile

SpecDump == InitDump /\ [][NextDump]_vars

NextFlash == CallFlash \/ FlashWriteChunk \/ FlashSyncRead \/ FlashBankRead

SpecFlash == InitFlash /\ [][NextFlash]_vars

(* ------------------------------------------------------------------ *)
(* flash, then dump, against a loopback device                         *)
(* ------------------------------------------------------------------ *)
\* after flash(ser, data, RamBanks(code)) has returned:
\* dump(ser, "out", RamBlocks(code)), the device streaming back what it stored
LoopbackDump ==
    /\ pc = "loop_dump"
    /\ op' = "loop_dump"
    /\ num_blocks' = RamBlocks(header.ram_size)
    /\ devSrc' = "ram"
    /\ devPos' = 0
    /\ i' = 0
    /\ dump_' = <<>>
    /\ pc' = DumpEntryPc(RamBlocks(header.ram_size))
    /\ UNCHANGED <<args, header, j, file, out_files, wire, trig, chunkWrites, syncReads,
                   blockReads, lastOp, devHdr, devPat, devFlashAt, acks, faults, stdout,
                   err>>

\* a payload of exactly the cartridge's RAM size, for every RAM size code up to MaxLoopCode
InitLoopback ==
    /\ InitCommon
    /\ args = NoArgs
    /\ devHdr = <<>>
    /\ pc = "call_flash"
    /\ op = "loop_flash"
    /\ \E code \in 0..MaxLoopCode :
          /\ header = [NoHeader EXCEPT !.ram_size = code]
          /\ num_blocks = RamBanks(code)
          /\ file = [pat |-> 1, len |-> RamBanks(code) * BANK_SIZE]
    /\ devSrc = "none"
    /\ devPat = 0
    /\ devFlashAt = 0

NextLoopback ==
    \/ CallFlash \/ FlashWriteChunk \/ FlashSyncRead \/ FlashBankRead
    \/ LoopbackDump \/ DumpRead \/ DumpWriteFile

SpecLoopback == InitLoopback /\ [][NextLoopback]_vars

(* ------------------------------------------------------------------ *)
(* The handshake answer alone: CartridgeHeader(...) and valid()        *)
(* ------------------------------------------------------------------ *)
\* 80-byte headers with every value of the checksum byte
HeaderSamples ==
    {HdrBytes(t, cart, rom, ram, ck) :
        t \in {Pokemon, Letters16, BadTitle}, cart \in {0, 255}, rom \in {0, 7},
        ram \in {0, 5}, ck \in 0..255}

\* a title field of letters with byte 0xC8 at offset h and a zero byte at offset z,
\* zero-padded after it when pad holds; offset 16 is outside the field
TitleOf(h, z, pad) ==
    [m \in 1..16 |->
        IF m - 1 = h THEN 200
        ELSE IF m - 1 = z \/ (pad /\ m - 1 > z) THEN 0
        ELSE 64 + m]

\* 80-byte headers of every such title
TitleSamples ==
    {HdrBytes(TitleOf(h, z, pad), 0, 0, 0, 0) : h \in 0..16, z \in 0..16, pad \in BOOLEAN}

\* main at line 80, the handshake written
InitHeader ==
    /\ InitCommon
    /\ pc = "m_hdr"
    /\ op = "main"
    /\ args = NoArgs
    /\ header = NoHeader
    /\ devHdr \in HeaderSamples \cup TitleSamples
    /\ num_blocks = 0
    /\ file = NoFile
    /\ devSrc = "none"
    /\ devPat = 0
    /\ devFlashAt = -1

NextHeader == MainReadHeader \/ MainValid

SpecHeader == InitHeader /\ [][NextHeader]_vars

(* ------------------------------------------------------------------ *)
(* The size computations alone: lines 95, 109-110 and 124              *)
(* ------------------------------------------------------------------ *)
\* line 95 for the header received
ResolveRomBlocks ==
    /\ pc = "resolve"
    /\ num_blocks' = RomBlocks(header.rom_size)
    /\ op' = "rom"
    /\ pc' = "resolved"
    /\ UNCHANGED <<args, header, i, j, dump_, file, out_files, wire, trig, chunkWrites,
                   syncReads, blockReads, lastOp, devHdr, devSrc, devPos, devPat,
                   devFlashAt, acks, faults, stdout, err>>

\* lines 109-110 for the header received
ResolveRamBlocks ==
    /\ pc = "resolve"
    /\ num_blocks' = RamBlocks(header.ram_size)
    /\ op' = "ram"
    /\ pc' = "resolved"
    /\ UNCHANGED <<args, header, i, j, dump_, file, out_files, wire, trig, chunkWrites,
                   syncReads, blockReads, lastOp, devHdr, devSrc, devPos, devPat,
                   devFlashAt, acks, faults, stdout, err>>

\* line 124 for the header received
ResolveRamBanks ==
    /\ pc = "resolve"
    /\ num_blocks' = RamBanks(header.ram_size)
    /\ op' = "flash"
    /\ pc' = "resolved"
    /\ UNCHANGED <<args, header, i, j, dump_, file, out_files, wire, trig, chunkWrites,
                   syncReads, blockReads, lastOp, devHdr, devSrc, devPos, devPat,
                   devFlashAt, acks, faults, stdout, err>>

\* a header with any ROM size code up to MaxSizeCode and any byte as RAM size code
InitSizes ==
    /\ InitCommon
    /\ pc = "resolve"
    /\ op = "main"
    /\ args = NoArgs
    /\ \E rom \in 0..MaxSizeCode, ram \in 0..255 :
          header = [NoHeader EXCEPT !.rom_size = rom, !.ram_size = ram]
    /\ devHdr = <<>>
    /\ num_blocks = 0
    /\ file = NoFile
    /\ devSrc = "none"
    /\ devPat = 0
    /\ devFlashAt = -1

NextSizes == ResolveRomBlocks \/ ResolveRamBlocks \/ ResolveRamBanks

SpecSizes == InitSizes /\ [][NextSizes]_vars

(* ------------------------------------------------------------------ *)
(* Properties of flash                                                 *)
(* ------------------------------------------------------------------ *)
\* bytes the transport accepted of the chunks flash wrote
FlashedLen == Len(wire) - devFlashAt

\* some chunk write was accepted short of 32 bytes
ShortWritten == chunkWrites > 0 /\ FlashedLen < chunkWrites * CHUNK_SIZE

\* C1: the number of chunk writes issued never exceeds the number of synchronizing
\* reads completed by more than 1, and every chunk write but the first directly
\* follows a synchronizing read
C1_StopAndWait ==
    /\ [](chunkWrites - syncReads <= 1)
    /\ [][chunkWrites' # chunkWrites /\ chunkWrites > 0
            => lastOp \in {"read_sync", "read_bank"}]_vars

C1_Witness == pc = "f_sync" /\ lastOp = "write_chunk" /\ chunkWrites = 3 /\ syncReads = 2

\* C2: the client waits for a bank only when all 256 chunks of the bank are written
\* and acknowledged, a chunk that starts a further bank is written right after that
\* one extra read, and a flash that completes has done 256 chunk writes and 257
\* reads per bank
C2_BankWait ==
    /\ [](pc = "f_wait" =>
            /\ chunkWrites > 0
            /\ chunkWrites % 256 = 0
            /\ syncReads = chunkWrites + chunkWrites \div 256 - 1)
    /\ [](pc = "done" => chunkWrites = 256 * num_blocks /\ syncReads = 257 * num_blocks)
    /\ [][chunkWrites' # chunkWrites /\ chunkWrites > 0 /\ chunkWrites % 256 = 0
            => lastOp = "read_bank" /\ syncReads = chunkWrites + chunkWrites \div 256]_vars

C2_Witness ==
    /\ pc = "f_sync"
    /\ lastOp = "write_chunk"
    /\ i = 1
    /\ j = 0
    /\ chunkWrites = 257
    /\ syncReads = 257

\* C3: once a chunk write was accepted short, flash has failed with an error, and
\* no chunk is written, no synchronizing read is done and nothing already sent
\* is taken back after it
C3_ShortWriteAborts ==
    /\ [](ShortWritten =>
            /\ pc = "error"
            /\ err = "AssertionError"
            /\ FlashedLen >= (chunkWrites - 1) * CHUNK_SIZE
            /\ SubSeq(wire, devFlashAt + 1, Len(wire)) = SubSeq(data, 1, FlashedLen))
    /\ [][ShortWritten =>
            chunkWrites' = chunkWrites /\ syncReads' = syncReads /\ wire' = wire]_vars

C3_Witness == ShortWritten /\ faults = 1 /\ chunkWrites = 3 /\ FlashedLen = 2 * 32 + 31

\* C5 as claimed: a payload that ends inside its last bank is flashed without error
\* by a transport that accepts every write in full, and the bytes written are the payload
C5_PartialLastBank ==
    (/\ op = "call_flash"
     /\ faults = 0
     /\ Len(data) % BANK_SIZE # 0
     /\ (num_blocks - 1) * BANK_SIZE < Len(data)
     /\ Len(data) < num_blocks * BANK_SIZE)
    => /\ pc # "error"
       /\ pc = "done" => wire = data

(* ------------------------------------------------------------------ *)
(* Properties of dump                                                  *)
(* ------------------------------------------------------------------ *)
\* the first n bytes the device streams of its source
StreamPrefix(n) == IF devSrc = "ram" THEN PatBytes(devPat, 0, n) ELSE PatBytes(devPat + 1, 0, n)

\* C4 as claimed: a read that returns fewer than 512 bytes makes dump fail, and
\* no dump writes an output of another length than blockCount * 512
C4_ShortReadRaises ==
    /\ faults > 0 => pc = "error"
    /\ \A k \in 1..Len(out_files) : Len(out_files[k].bytes) = num_blocks * 512

\* C7: dump does blockCount reads and stops; while every read returned a full block
\* the buffer holds the blocks in arrival order, and the output of the finished
\* dump is those blockCount * 512 bytes
C7_DumpBlocks ==
    /\ blockReads <= num_blocks
    /\ pc = "d_read" => blockReads < num_blocks
    /\ pc \in {"d_write", "done"} => blockReads = num_blocks
    /\ faults = 0 =>
          /\ devPos = 512 * blockReads
          /\ pc \in {"d_read", "d_write"} => dump_ = StreamPrefix(devPos)
          /\ pc = "done" =>
                /\ Len(out_files) = 1
                /\ Len(out_files[1].bytes) = num_blocks * 512
                /\ out_files[1].bytes = StreamPrefix(num_blocks * 512)

C7_Witness ==
    /\ pc = "done"
    /\ faults = 0
    /\ num_blocks = 3
    /\ blockReads = 3
    /\ Len(out_files) = 1
    /\ Len(out_files[1].bytes) = 1536

\* C8: from the dump trigger to the return of dump the client writes nothing
C8_DumpWritesNothing ==
    [][(pc = "d_read" \/ pc = "d_write") => (wire' = wire /\ trig' = trig)]_vars

C8_Witness ==
    /\ pc = "d_read"
    /\ op = "rom"
    /\ blockReads = 2
    /\ wire = <<202, 0, 202, 1>>

(* ------------------------------------------------------------------ *)
(* Properties of the round trip                                        *)
(* ------------------------------------------------------------------ *)
\* C9: the loopback device holds a prefix of the payload while it is flashed and
\* the whole payload after, the dump buffer holds a prefix of it, and the output
\* of the finished dump of 16 blocks per bank is the payload
C9_RoundTrip ==
    /\ Len(data) = RamTable(header.ram_size) * 8192
    /\ wire = SubSeq(data, 1, Len(wire))
    /\ op = "loop_dump" =>
          /\ wire = data
          /\ num_blocks * 512 = Len(data)
          /\ dump_ = SubSeq(data, 1, Len(dump_))
    /\ pc = "done" =>
          /\ Len(out_files) = 1
          /\ out_files[1].bytes = data

C9_Witness ==
    /\ pc = "done"
    /\ header.ram_size = 2
    /\ blockReads = 16
    /\ Len(out_files) = 1
    /\ Len(out_files[1].bytes) = 8192

(* ------------------------------------------------------------------ *)
(* Properties of the header                                            *)
(* ------------------------------------------------------------------ *)
\* the sum of the bytes h[lo..hi] (1-based, inclusive)
RECURSIVE SumBytes(_, _, _)
SumBytes(h, lo, hi) == IF lo > hi THEN 0 ELSE h[lo] + SumBytes(h, lo + 1, hi)

\* C6 as claimed: after an answer of fewer than 80 bytes the run has ended with an
\* error once the header is read, and only the handshake command is ever written
C6_ShortHeaderFatal ==
    Len(devHdr) < 80 =>
        /\ pc \in {"m_hs", "m_hdr", "error"}
        /\ \A k \in 1..Len(trig) : trig[k] = 0

\* C10: valid() is true exactly when byte 0x4D is the checksum of the 25 bytes
\* [0x34, 0x4D), that is, when the byte plus the 25 bytes plus 25 is 0 modulo 256
C10_ValidIffChecksum ==
    pc = "m_select" =>
        (stdout = <<"Received valid header.">>
            <=> (devHdr[78] + SumBytes(devHdr, 53, 77) + 25) % 256 = 0)

C10_Witness ==
    /\ pc = "m_select"
    /\ Len(devHdr) = 80
    /\ stdout = <<"Received valid header.">>
    /\ header.hdr_cksm = devHdr[78]

(* ------------------------------------------------------------------ *)
(* Properties of a session of main                                     *)
(* ------------------------------------------------------------------ *)
\* the commands of a complete session with the options a: the handshake, then one
\* trigger per selected transfer
SelectedTriggers(a) ==
    <<0>> \o (IF a.dumprom # "" THEN <<1>> ELSE <<>>)
          \o (IF a.dumpram # "" THEN <<2>> ELSE <<>>)
          \o (IF a.flashram # "" THEN <<4>> ELSE <<>>)

\* the number of dumps selected by the options a
SelectedDumps(a) ==
    (IF a.dumprom # "" THEN 1 ELSE 0) + (IF a.dumpram # "" THEN 1 ELSE 0)

\* the block reads of the dumps selected by a for the header hd
SelectedBlocks(a, hd) ==
    (IF a.dumprom # "" THEN RomBlocks(hd.rom_size) ELSE 0)
    + (IF a.dumpram # "" THEN RamBlocks(hd.ram_size) ELSE 0)

\* the chunk writes of the flash selected by a for the header hd
SelectedChunks(a, hd) ==
    IF a.flashram # "" THEN CHUNKS_PER_BANK * RamBanks(hd.ram_size) ELSE 0

\* a header was received and it fails the checksum
InvalidHeader == header # NoHeader /\ ~valid(header)

\* C11: a header that fails the checksum does not end the session: the step after
\* the validation goes on to the selection of the transfers without an error, and
\* a session that completes, whatever valid() returned, has written the handshake
\* and the trigger of every selected transfer and has done every selected
\* transfer's reads, writes and output files
C11_InvalidHeaderNotFatal ==
    /\ [][(pc = "m_valid" /\ ~valid(header))
            => (pc' = "m_select" /\ err' = "none" /\ trig' = trig)]_vars
    /\ [](InvalidHeader => err \in {"none", "AssertionError"})
    /\ [](pc = "done" =>
            /\ trig = SelectedTriggers(args)
            /\ Len(out_files) = SelectedDumps(args)
            /\ blockReads = SelectedBlocks(args, header)
            /\ chunkWrites = SelectedChunks(args, header))

C11_Witness ==
    /\ pc = "done"
    /\ InvalidHeader
    /\ stdout = <<"Done!">>
    /\ args.dumpram = "out.ram"
    /\ trig = <<0, 2>>
    /\ blockReads = 16
    /\ Len(out_files) = 1

\* s is a prefix of t
IsPrefix(s, t) == Len(s) <= Len(t) /\ s = SubSeq(t, 1, Len(s))

\* the bytes of the commands t on the wire: 0xCA and the command byte, each
RECURSIVE CommandBytes(_)
CommandBytes(t) == IF t = <<>> THEN <<>> ELSE <<202, Head(t)>> \o CommandBytes(Tail(t))

\* the command written last
LastTrig == trig[Len(trig)]

\* the block reads of the dumps whose triggers are among the commands t
TriggeredBlocks(t) ==
    (IF \E k \in 1..Len(t) : t[k] = 1 THEN RomBlocks(header.rom_size) ELSE 0)
    + (IF \E k \in 1..Len(t) : t[k] = 2 THEN RamBlocks(header.ram_size) ELSE 0)

\* the number of dump triggers among the commands t
TriggeredDumps(t) == Cardinality({k \in 1..Len(t) : t[k] \in {1, 2}})

\* C12: the first two transport operations are the write of 0xCA 0x00 and the
\* header read; the commands written are, in order and each once, the handshake
\* and the triggers of the selected transfers (ROM dump 1, RAM dump 2, flash 4);
\* a trigger is written only with the header read and every earlier transfer
\* complete; a block read or chunk write belongs to the transfer triggered last,
\* and the first of them directly follows the trigger
C12_SessionOrder ==
    /\ [](pc = "m_hs" => (lastOp = "none" /\ wire = <<>> /\ trig = <<>>))
    /\ [](pc = "m_hdr" => (lastOp = "write_cmd" /\ wire = <<202, 0>> /\ trig = <<0>>))
    /\ [][(pc = "m_hdr") => (lastOp' = "read_hdr" /\ wire' = wire)]_vars
    /\ [](IsPrefix(trig, SelectedTriggers(args)))
    /\ [](IF devFlashAt < 0 THEN wire = CommandBytes(trig)
                            ELSE SubSeq(wire, 1, devFlashAt) = CommandBytes(trig))
    /\ [][(trig' # trig /\ trig # <<>>) =>
            /\ header # NoHeader
            /\ pc \in {"m_rom", "m_ram", "m_flash"}
            /\ blockReads = TriggeredBlocks(trig)
            /\ Len(out_files) = TriggeredDumps(trig)
            /\ chunkWrites = 0]_vars
    /\ [][(blockReads' # blockReads) =>
            /\ LastTrig \in {1, 2}
            /\ lastOp = (IF i = 0 THEN "write_cmd" ELSE "read_block")
            /\ blockReads < TriggeredBlocks(trig)
            /\ chunkWrites = 0
            /\ wire' = wire]_vars
    /\ [][(chunkWrites' # chunkWrites) =>
            /\ LastTrig = 4
            /\ lastOp = (IF chunkWrites = 0 THEN "write_cmd"
                         ELSE IF j = 0 THEN "read_bank" ELSE "read_sync")
            /\ blockReads = TriggeredBlocks(trig)
            /\ Len(out_files) = TriggeredDumps(trig)]_vars

C12_Witness ==
    /\ pc = "f_sync"
    /\ args.dumprom = ""
    /\ trig = <<0, 2, 4>>
    /\ blockReads = 16
    /\ Len(out_files) = 1
    /\ chunkWrites = 2
    /\ lastOp = "write_chunk"

\* the header received has a RAM size code that is not in the table
UnknownRam == header # NoHeader /\ header.ram_size \notin {2, 3, 4, 5}

\* C13: with a RAM size code outside {2,3,4,5} the session is never in an error
\* or waiting for an acknowledgement; the RAM dump reads no block and writes an
\* empty output; the flash writes no chunk and does no synchronizing read; and the
\* session that completes has reported every selected transfer as done
C13_UnknownRamCode ==
    /\ [](UnknownRam =>
            /\ pc \notin {"error", "f_chunk", "f_sync", "f_wait"}
            /\ err = "none"
            /\ chunkWrites = 0
            /\ syncReads = 0
            /\ (pc = "d_read" => op = "rom")
            /\ (args.dumprom = "" => blockReads = 0)
            /\ (pc = "done" =>
                  /\ Len(out_files) = SelectedDumps(args)
                  /\ Len(SelectSeq(stdout, LAMBDA x : x = "Done!")) = Len(trig) - 1))
    /\ [][(UnknownRam /\ LastTrig = 2) =>
            /\ blockReads' = blockReads
            /\ (Len(out_files') > Len(out_files)
                    => out_files'[Len(out_files')].bytes = <<>>)]_vars
    /\ [][(UnknownRam /\ LastTrig = 4) =>
            (wire' = wire /\ lastOp' = lastOp /\ pc' \in {"m_flash_done", "done"})]_vars

C13_Witness ==
    /\ pc = "done"
    /\ header.ram_size = 6
    /\ args = [dumprom |-> "", dumpram |-> "out.ram", flashram |-> "in.ram"]
    /\ trig = <<0, 2, 4>>
    /\ blockReads = 0
    /\ chunkWrites = 0
    /\ syncReads = 0
    /\ Len(out_files) = 1
    /\ out_files[1].bytes = <<>>

(* ------------------------------------------------------------------ *)
(* Properties of the size computations                                 *)
(* ------------------------------------------------------------------ *)
\* 64 doubled n times
RECURSIVE Doubled(_)
Doubled(n) == IF n = 0 THEN 64 ELSE 2 * Doubled(n - 1)

\* C14: the ROM dump's block count is 64 for ROM size code 0, 128 for code 1 and
\* doubles with each increment of the code; in bytes it is 32KB doubled code times
C14_RomBlockCount ==
    (pc = "resolved" /\ op = "rom") =>
        /\ num_blocks = Doubled(header.rom_size)
        /\ header.rom_size = 0 => num_blocks = 64
        /\ header.rom_size = 1 => num_blocks = 128
        /\ num_blocks * 512 = 32 * 1024 * 2 ^ header.rom_size

C14_Witness ==
    /\ pc = "resolved"
    /\ op = "rom"
    /\ header.rom_size = 2
    /\ num_blocks = 256

\* C15: the RAM dump's block count is 16, 64, 256, 128 for the RAM size codes
\* 2, 3, 4, 5 and 0 for every other code
C15_RamBlockCount ==
    (pc = "resolved" /\ op = "ram") =>
        /\ header.ram_size = 2 => num_blocks = 16
        /\ header.ram_size = 3 => num_blocks = 64
        /\ header.ram_size = 4 => num_blocks = 256
        /\ header.ram_size = 5 => num_blocks = 128
        /\ header.ram_size \notin {2, 3, 4, 5} => num_blocks = 0

C15_Witness ==
    /\ pc = "resolved"
    /\ op = "ram"
    /\ header.ram_size = 5
    /\ num_blocks = 128

\* C16: the flash's bank count is 1, 4, 16, 8 for the RAM size codes 2, 3, 4, 5
\* and 0 for every other code, and the banks of 0x2000 bytes flashed are as many
\* bytes as the blocks of 512 bytes dumped for the same code
C16_RamBankCount ==
    (pc = "resolved" /\ op = "flash") =>
        /\ header.ram_size = 2 => num_blocks = 1
        /\ header.ram_size = 3 => num_blocks = 4
        /\ header.ram_size = 4 => num_blocks = 16
        /\ header.ram_size = 5 => num_blocks = 8
        /\ header.ram_size \notin {2, 3, 4, 5} => num_blocks = 0
        /\ num_blocks * 8192 = RamBlocks(header.ram_size) * 512

C16_Witness ==
    /\ pc = "resolved"
    /\ op = "flash"
    /\ header.ram_size = 4
    /\ num_blocks = 16
    /\ RamBlocks(header.ram_size) = 256

(* ------------------------------------------------------------------ *)
(* Properties of the title                                             *)
(* ------------------------------------------------------------------ *)
\* the 16 bytes [0x34, 0x44) of the device's answer
TitleField == SubSeq(devHdr, 53, 68)

\* str.encode("ascii") of a title
EncodeAscii(t) == [k \in 1..Len(t) |-> t[k].chr]

\* C17: the title of a parsed header has at most 15 characters, exactly 15 when
\* the title field holds no zero byte and exactly k when its first zero byte is
\* at offset k; it is the field's bytes before that end, and extracting the title
\* again from the title's own bytes yields the same title
C17_TitleLength ==
    pc = "m_valid" =>
        /\ Len(header.title) <= 15
        /\ (\A m \in 1..16 : TitleField[m] # 0) => Len(header.title) = 15
        /\ \A k \in 0..15 :
              (TitleField[k + 1] = 0 /\ \A m \in 1..k : TitleField[m] # 0)
                  => Len(header.title) = k
        /\ EncodeAscii(header.title) = SubSeq(TitleField, 1, Len(header.title))
        /\ extract_title(EncodeAscii(header.title)) = header.title

C17_Witness ==
    /\ pc = "m_valid"
    /\ TitleField[10] = 0
    /\ TitleField[12] # 0
    /\ \A m \in 1..9 : TitleField[m] # 0
    /\ Len(header.title) = 9

\* the number of bytes of the title field that are decoded: those before its first
\* zero byte, 15 when it has none
DecodedLen ==
    IF \E k \in 0..15 : TitleField[k + 1] = 0
    THEN CHOOSE k \in 0..15 : TitleField[k + 1] = 0 /\ \A m \in 1..k : TitleField[m] # 0
    ELSE 15

\* C18 as claimed: the header read fails with a decode error when any of the 16
\* bytes of the title field is above 0x7F, and succeeds on an answer of 80 bytes
\* when all 16 are within 0x00-0x7F
C18_AnyHighByteFails ==
    pc # "m_hdr" =>
        /\ (\E m \in 1..16 : TitleField[m] > 127)
                => (pc = "error" /\ err = "UnicodeDecodeError")
        /\ (Len(devHdr) >= 80 /\ \A m \in 1..16 : TitleField[m] <= 127) => pc # "error"

\* C18 amended: the header read fails with a decode error exactly when a byte of
\* the title field before its first zero byte, and among its first 15 bytes when
\* it has none, is above 0x7F; a byte above 0x7F after the zero byte or at offset
\* 15 of a field without one is not decoded; and the read succeeds on an answer of
\* 80 bytes when all 16 bytes are within 0x00-0x7F
C18_DecodeError ==
    pc # "m_hdr" =>
        /\ (\E m \in 1..DecodedLen : TitleField[m] > 127)
                <=> (pc = "error" /\ err = "UnicodeDecodeError")
        /\ (Len(devHdr) >= 80 /\ \A m \in 1..16 : TitleField[m] <= 127)
                => (pc # "error" /\ err = "none")

C18_Witness ==
    /\ pc = "error"
    /\ err = "UnicodeDecodeError"
    /\ header = NoHeader
    /\ TitleField[3] = 200
    /\ TitleField[6] = 0

(* ------------------------------------------------------------------ *)
(* Properties of the dump's output file                                *)
(* ------------------------------------------------------------------ *)
\* C19: dump writes its output file once, when all blockCount block reads are
\* done and not before; a dump whose read raised before the last block was read
\* has written no file and writes none
C19_FileWrittenOnce ==
    /\ [](Len(out_files) <= 1)
    /\ [](blockReads < num_blocks => out_files = <<>>)
    /\ [](pc = "done" => (Len(out_files) = 1 /\ blockReads = num_blocks))
    /\ [](pc = "error" => (out_files = <<>> /\ blockReads < num_blocks))
    /\ [][(out_files' # out_files) =>
            /\ pc = "d_write"
            /\ blockReads = num_blocks
            /\ out_files = <<>>
            /\ out_files' = <<[name |-> FileName(op, args, header), bytes |-> dump_]>>
            /\ blockReads' = blockReads]_vars
    /\ [][(pc = "error") => (out_files' = out_files)]_vars

C19_Witness ==
    /\ pc = "error"
    /\ err = "SerialException"
    /\ num_blocks = 3
    /\ blockReads = 2
    /\ Len(dump_) = 1024
    /\ out_files = <<>>

(* ------------------------------------------------------------------ *)
(* Properties of a session without a transfer                          *)
(* ------------------------------------------------------------------ *)
\* none of --dumprom, --dumpram, --flashram is given
NoneSelected == args.dumprom = "" /\ args.dumpram = "" /\ args.flashram = ""

\* C20: with no transfer selected the session writes the handshake, reads the
\* header, reports it and exits: nothing but 0xCA 0x00 is ever written, the header
\* read is the only read, no file is written and no transfer is reported; the
\* step after the report is the exit, and only such a session exits there
C20_NoTransferSelected ==
    /\ [](NoneSelected =>
            /\ pc \in {"m_hs", "m_hdr", "m_valid", "m_select", "exit", "error"}
            /\ IsPrefix(wire, <<202, 0>>)
            /\ IsPrefix(trig, <<0>>)
            /\ lastOp \in {"none", "write_cmd", "read_hdr"}
            /\ blockReads = 0
            /\ chunkWrites = 0
            /\ syncReads = 0
            /\ out_files = <<>>
            /\ IsPrefix(stdout, <<"Received valid header.">>))
    /\ [](pc = "exit" =>
            /\ NoneSelected
            /\ wire = <<202, 0>>
            /\ trig = <<0>>
            /\ lastOp = "read_hdr"
            /\ header # NoHeader
            /\ err = "none")
    /\ [][(NoneSelected /\ pc = "m_select") => pc' = "exit"]_vars
    /\ [][pc # "exit"]_vars

C20_Witness ==
    /\ pc = "exit"
    /\ NoneSelected
    /\ wire = <<202, 0>>
    /\ trig = <<0>>
    /\ lastOp = "read_hdr"
    /\ stdout = <<"Received valid header.">>

====
